---- MODULE Spec2Model ----
(***************************************************************************)
(* A model of the dashboard mirroring scripts of this repository:          *)
(*   - TabDownloader (download_tabs_with_resources.py): the resource       *)
(*     fetcher with its retry loop, the per-tab capture and the regex      *)
(*     rewriter process_html;                                              *)
(*   - temp.py / streamlit_app.py: slugify, discover_site_structure, the   *)
(*     capture loops of main / main_scraper, save_page_with_assets and     *)
(*     rewrite_links;                                                      *)
(*   - update_links.py: update_file;                                       *)
(*   - WebpageExplorer (webpage_explorer.py): explore_website, explore_tab *)
(*     and the head of download_resource.                                  *)
(* One specification, Spec: the variable prog, fixed by Init, says which    *)
(* script runs; the variables of the other scripts keep their initial      *)
(* values.                                                                 *)
(***************************************************************************)
EXTENDS Integers, Sequences, FiniteSets, TLC

VARIABLES
    prog,          \* the script that runs: "td" (TabDownloader.run)
    \* ---- TabDownloader.run
    tdPc,          \* position of run/download_tab: "tab" | "gather" | "post" | "done" | "aborted"
    tdI,           \* index of the tab being processed (1-based)
    task,          \* download_resource calls of the run: <<tab index, url>> -> call record
    visited_urls,  \* TabDownloader.visited_urls
    disk,          \* files written under downloaded_pages/, as paths
    tabResult,     \* per tab: download_tab's return value and what index.html holds
    failures,      \* failed HTTP attempts and raised browser calls of the run so far
    \* ---- temp.py main / streamlit_app.py main_scraper
    dash,          \* the dashboard the browser shows (fixed during a run)
    tablist,       \* whether the dashboard's page holds a div[role="tablist"]
    out_dir,       \* the output directory: whether it exists, whether a previous run's output is in it, the rmtree calls so far
    mPc,           \* "start" | "disc" | "cap" | "sub" | "done" | "aborted"
    mI,            \* the loop variable i (1-based)
    mJ,            \* the loop variable j of the sub-tab loop (1-based)
    site_map,      \* the Site Map: slug -> page path
    active,        \* the tab and sub-tab the page shows
    files,         \* HTML files written: page path -> content
    assets,        \* stylesheet files written
    gets,          \* URLs for which session.get has been called
    raises,        \* calls that raised or GETs that failed, so far
    lastRaise,     \* the call that raised last ("" for none)
    tabRaised,     \* top-level tabs during whose capture a call raised
    nameBound,     \* whether main_scraper's local `name` has been assigned
    page_url,      \* page.url
    handles,       \* the element handles the script holds and how it has used them
    nav,           \* the page.goto attempts and sleeps of the first navigation, the click() calls of the last iteration
    \* ---- update_links.py
    html_file,     \* the file update_file is run on, its backup, the runs so far
    \* ---- WebpageExplorer.explore_website
    we,            \* position, tabs found, files written and fetches dispatched per tab
    \* ---- slugify
    slug_run,      \* a text and the results of slugify applied to it once and twice
    \* ---- dynamic_downloader.extract_nav_tabs
    tabs_run       \* an HTML file's elements and what extract_nav_tabs returned for it

tdVars == <<tdPc, tdI, task, visited_urls, disk, tabResult, failures>>
mVars == <<dash, tablist, out_dir, mPc, mI, mJ, site_map, active, files, assets, gets, raises, lastRaise,
           tabRaised, nameBound, page_url, handles, nav>>

\* The variables of the scripts other than TabDownloader and the two mirrors.
xVars == <<html_file, we, slug_run, tabs_run>>

vars == <<prog, tdVars, mVars, xVars>>

-----------------------------------------------------------------------------
(* Bounds of the model.                                                    *)

\* number of tabs handed to TabDownloader.run
MaxTabs == 2
\* number of resources one page references
MaxRes == 2
\* number of failures (HTTP attempts not answered 200, browser calls that
\* raise) injected into one run
MaxFailures == 3

-----------------------------------------------------------------------------
(* URLs.  A URL is a record                                                *)
(*   form : "abs"  (https://host/path), "net" (//host/path),               *)
(*          "root" (/path), "rel" (path-relative), "data" (data:...)       *)
(*   host : the host of an abs or net URL ("" otherwise)                   *)
(*   ups  : the number of leading ../ of a rel URL                         *)
(*   path : the path segments                                              *)
(*   sfx  : the query or fragment the string ends with ("" for none)       *)
(* Two records differ iff the URL strings differ.                          *)

Url(form, host, ups, path, sfx) ==
    [form |-> form, host |-> host, ups |-> ups, path |-> path, sfx |-> sfx]

\* The dashboard: https://dash.xyz/Sandesh/board
BaseHost == "dash.xyz"
base_url == Url("abs", BaseHost, 0, <<"Sandesh", "board">>, "")

\* Hosts other than the dashboard's.  The name of the second starts with the
\* dashboard's host name: "https://dash.xyz.evil.io/..." has the string
\* prefix "https://dash.xyz".
CdnHost == "cdn.io"
PrefixHost == "dash.xyz.evil.io"
HostHasBasePrefix(h) == h \in {BaseHost, PrefixHost}

\* The resource URLs a page may reference.
UrlCssAbs  == Url("abs",  BaseHost,   0, <<"static", "a.css">>, "")
UrlCssRoot == Url("root", "",         0, <<"static", "a.css">>, "?v=2")
UrlCdnJs   == Url("abs",  CdnHost,    0, <<"lib.js">>, "")
UrlData    == Url("data", "",         0, <<>>, "")
UrlPool == {UrlCssAbs, UrlCssRoot, UrlCdnJs}

DropLast(s, n) == IF n >= Len(s) THEN <<>> ELSE SubSeq(s, 1, Len(s) - n)

\* urllib.parse.urljoin(base, url) for the forms above: a URL with a scheme
\* is returned as it is; a path-relative one is resolved against the
\* directory of base's path, each ../ dropping one directory (never above
\* the root).
urljoin(base, url) ==
    CASE url.form \in {"abs", "data"} -> url
      [] url.form = "net"  -> Url("abs", url.host, 0, url.path, url.sfx)
      [] url.form = "root" -> Url("abs", base.host, 0, url.path, url.sfx)
      [] OTHER -> Url("abs", base.host, 0,
                      DropLast(DropLast(base.path, 1), url.ups) \o url.path,
                      url.sfx)

\* download_resource's "Handle relative URLs" (the same steps are in
\* update_url): //x gets the scheme, /x the base domain, anything not
\* starting with http:// or https:// goes through urljoin.
Absolutize(url) ==
    CASE url.form = "net"  -> Url("abs", url.host, 0, url.path, url.sfx)
      [] url.form = "root" -> Url("abs", BaseHost, 0, url.path, url.sfx)
      [] url.form = "abs"  -> url
      [] OTHER -> urljoin(base_url, url)

\* url.startswith(self.base_domain): a comparison of strings, not of hosts.
StartsWithBaseDomain(url) == url.form = "abs" /\ HostHasBasePrefix(url.host)

\* The resource a URL names: host and path, without query and fragment.
Canon(url) == LET a == Absolutize(url) IN
    IF a.form = "abs" THEN <<a.host, a.path>> ELSE <<"data", <<>>>>

\* TabDownloader.get_local_path: urlparse(url).path (no query, no fragment,
\* no host) under the tab's assets directory; index.html for the empty path.
get_local_path(url, tab_name) ==
    IF url.path = <<>>
    THEN <<"downloaded_pages", tab_name, "index.html">>
    ELSE <<"downloaded_pages", tab_name, "assets">> \o url.path

-----------------------------------------------------------------------------
(* TabDownloader.process_html: the three re.sub calls over the page's HTML. *)
(* The HTML is the set of its href= and src= attribute occurrences; an     *)
(* occurrence is the attribute name, the number of extra copies of         *)
(* `name=` in front of it, and the quoted URL.                             *)

Attr(attr, pre, url) == [attr |-> attr, pre |-> pre, url |-> url]

\* How a page refers to a resource: <link href=...> for a stylesheet,
\* src= for anything else.
AttrOf(url) ==
    IF url.path # <<>> /\ url.path[Len(url.path)] \in {"a.css", "theme.css"}
    THEN "href" ELSE "src"

\* The HTML of a page that refers to the resources R.
TabHtml(R) == {Attr(AttrOf(u), 0, u) : u \in R}

CommonLen(a, b) ==
    CHOOSE n \in 0..Len(a) :
        /\ n <= Len(b)
        /\ \A k \in 1..n : a[k] = b[k]
        /\ n < Len(a) /\ n < Len(b) => a[n + 1] # b[n + 1]

\* os.path.relpath(path, start): one ../ for each directory of start below
\* the common ancestor, then the rest of path.
os_path_relpath(path, start) ==
    LET n == CommonLen(path, start)
    IN Url("rel", "", Len(start) - n, SubSeq(path, n + 1, Len(path)), "")

\* update_url and the lambda around it, lines 184-212.  For a URL that is
\* skipped (data:, blob:, #, or not starting with base_domain) update_url
\* returns match.group(0), the whole attribute, and the lambda puts `href=`
\* (or `src=`) in front of it once more.  Otherwise the quoted URL is
\* replaced by the path of the local copy relative to the page's directory.
update_url(t, base, tab_name) ==
    LET url == Absolutize(t.url)
    IN IF t.url.form = "data" \/ ~StartsWithBaseDomain(url)
       THEN [t EXCEPT !.pre = @ + 1]
       ELSE [t EXCEPT !.url = os_path_relpath(get_local_path(url, tab_name),
                                              DropLast(get_local_path(base, tab_name), 1))]

process_html(html, base, tab_name) == {update_url(t, base, tab_name) : t \in html}

-----------------------------------------------------------------------------
(* TabDownloader.download_resource and download_tab / run.                 *)

\* max_retries=2, the default of download_resource
max_retries == 2

TabNames == <<"about", "tokens", "nft", "governance", "airdrop">>
TabName(i) == TabNames[i]

\* A call of download_resource:
\*   pc      "get" (at the session.get of attempt `attempt`), "ret" (returned)
\*   attempt the retry loop's variable: the attempts that have failed so far
\*   out     "" | "visited" | "external" | "downloaded" | "failed"
Calls == DOMAIN task
CallUrl(c) == c[2]
CallTab(c) == c[1]

\* download_resource_begin without the test of line 54.
download_resource_begin_no_skip(url, visited) ==
    IF url \in visited
    THEN [pc |-> "ret", attempt |-> 0, out |-> "visited"]
    ELSE [pc |-> "get", attempt |-> 0, out |-> ""]

\* Lines 40-58, up to the first await of the call: the visited check and
\* insert, the normalisation, the external check and the makedirs.  The
\* result is the call's record; the URL is added to visited_urls unless it
\* was there.
download_resource_begin(url, visited) ==
    IF url \in visited
    THEN [pc |-> "ret", attempt |-> 0, out |-> "visited"]
    ELSE IF ~StartsWithBaseDomain(Absolutize(url))
         THEN [pc |-> "ret", attempt |-> 0, out |-> "external"]
         ELSE [pc |-> "get", attempt |-> 0, out |-> ""]

\* download_resource_attempt with the loop one turn short
\* (range(max_retries) instead of range(max_retries + 1)).
download_resource_attempt_short(c, resp) ==
    /\ prog = "td"
    /\ tdPc = "gather"
    /\ task[c].pc = "get"
    /\ IF resp = "200"
       THEN /\ task' = [task EXCEPT ![c] = [@ EXCEPT !.pc = "ret", !.out = "downloaded"]]
            /\ disk' = disk \cup {get_local_path(Absolutize(CallUrl(c)), TabName(CallTab(c)))}
            /\ UNCHANGED failures
       ELSE /\ failures < MaxFailures
            /\ failures' = failures + 1
            /\ IF task[c].attempt < max_retries - 1
               THEN task' = [task EXCEPT ![c] = [@ EXCEPT !.attempt = @ + 1]]
               ELSE task' = [task EXCEPT ![c] = [@ EXCEPT !.pc = "ret", !.out = "failed"]]
            /\ UNCHANGED disk
    /\ UNCHANGED <<prog, xVars, tdPc, tdI, visited_urls, tabResult, mVars>>

\* Lines 62-99: one turn of the retry loop.  A 200 writes the file and
\* returns; anything else sleeps and retries while attempt < max_retries,
\* and falls out of the loop ("Failed to download") after the last attempt,
\* which leaves attempt = max_retries.
download_resource_attempt(c, resp) ==
    /\ prog = "td"
    /\ tdPc = "gather"
    /\ task[c].pc = "get"
    /\ LET abs_url == Absolutize(CallUrl(c))
           local_path == get_local_path(abs_url, TabName(CallTab(c)))
       IN IF resp = "200"
          THEN /\ task' = [task EXCEPT ![c] = [@ EXCEPT !.pc = "ret", !.out = "downloaded"]]
               /\ disk' = disk \cup {local_path}
               /\ UNCHANGED failures
          ELSE /\ failures < MaxFailures
               /\ failures' = failures + 1
               /\ IF task[c].attempt < max_retries
                  THEN task' = [task EXCEPT ![c] = [@ EXCEPT !.attempt = @ + 1]]
                  ELSE task' = [task EXCEPT ![c] = [@ EXCEPT !.pc = "ret", !.out = "failed"]]
               /\ UNCHANGED disk
    /\ UNCHANGED <<prog, xVars, tdPc, tdI, visited_urls, tabResult, mVars>>

\* The GETs a call has issued: one per failed attempt, one more for the
\* attempt that was answered 200 or that ended the loop.
Gets(c) == task[c].attempt + (IF task[c].out \in {"downloaded", "failed"} THEN 1 ELSE 0)
Wrote(c) == task[c].out = "downloaded"

\* The resources a page can reference: page.evaluate returns them through
\* [...new Set(resources)], so no string twice.
\* A page can also reference one URL without a host (UrlData: a data:,
\* javascript:, mailto: or tel: URL, which urljoin returns as it is).
ResourceSets == {R \in SUBSET UrlPool : Cardinality(R) <= MaxRes} \cup {{UrlData}}

TabDir(i) == <<"downloaded_pages", TabName(i)>>

NextTab == IF tdI < MaxTabs THEN "tab" ELSE "done"

TabResources(i) == {CallUrl(c) : c \in {d \in DOMAIN task : CallTab(d) = i}}

\* What download_tab writes to index.html: the result of process_html, or,
\* when process_html raises, page.content() as it is.
IndexHtml(i, how) ==
    CASE how = "ok" -> process_html(TabHtml(TabResources(i)), base_url, TabName(i))
      [] how = "process_html_raises" -> TabHtml(TabResources(i))
      [] OTHER -> {}

\* What download_tab leaves behind, by how it went:
\*   ret    download_tab's return value ("none": not run or not finished)
\*   index  what index.html holds ("none": not written)
\*   how    "ok", or the call that raised
\*   html   the attribute occurrences of index.html
TabOutcome(how) ==
    CASE how = "ok" ->
             [ret |-> "true", index |-> "processed", how |-> how, html |-> IndexHtml(tdI, how)]
      [] how = "process_html_raises" ->
             [ret |-> "true", index |-> "raw", how |-> how, html |-> IndexHtml(tdI, how)]
      [] how = "launch_raises" -> [ret |-> "none", index |-> "none", how |-> how, html |-> {}]
      [] OTHER -> [ret |-> "false", index |-> "none", how |-> how, html |-> {}]

NotRun == [ret |-> "none", index |-> "none", how |-> "", html |-> {}]

\* The files download_tab writes after gather, by how it went.
TabFiles(i, how) ==
    CASE how \in {"ok", "process_html_raises"} ->
              {TabDir(i) \o <<"screenshot.png">>, TabDir(i) \o <<"raw.html">>,
               TabDir(i) \o <<"index.html">>}
      [] how = "content_raises" -> {TabDir(i) \o <<"screenshot.png">>}
      [] OTHER -> {}

\* download_tab, lines 239-330: the browser is launched before the try
\* block, so a failed launch leaves run (through its finally); goto,
\* wait_for_selector, click and the two evaluate calls are inside it, and a
\* failure there is caught and returns False.  Then one download_resource
\* coroutine per resource is created and handed to asyncio.gather, which
\* runs each, in list order, up to its first await before any response is
\* handled; the URLs of one page are pairwise different strings, so the
\* order of these first steps does not matter.
download_tab_open(outcome, R) ==
    /\ prog = "td"
    /\ tdPc = "tab"
    /\ outcome # "ok" => failures < MaxFailures
    /\ failures' = IF outcome = "ok" THEN failures ELSE failures + 1
    /\ CASE outcome = "launch_raises" ->
              /\ tdPc' = "aborted"
              /\ tabResult' = [tabResult EXCEPT ![tdI] = TabOutcome(outcome)]
              /\ UNCHANGED <<tdI, task, visited_urls>>
         [] outcome = "click_raises" ->
              /\ tabResult' = [tabResult EXCEPT ![tdI] = TabOutcome(outcome)]
              /\ tdPc' = NextTab
              /\ tdI' = IF tdI < MaxTabs THEN tdI + 1 ELSE tdI
              /\ UNCHANGED <<task, visited_urls>>
         [] OTHER ->
              /\ task' = [c \in Calls \cup {<<tdI, u>> : u \in R} |->
                             IF c \in Calls THEN task[c]
                             ELSE download_resource_begin(CallUrl(c), visited_urls)]
              /\ visited_urls' = visited_urls \cup R
              /\ tdPc' = "gather"
              /\ UNCHANGED <<tdI, tabResult>>
    /\ UNCHANGED <<prog, xVars, disk, mVars>>

\* asyncio.gather(*download_tasks, return_exceptions=True) has returned.
Joined == \A c \in Calls : CallTab(c) = tdI => task[c].pc = "ret"

\* download_tab_post letting a failed download_resource call fail the tab
\* (gather without return_exceptions, the call raising after its last attempt).
download_tab_post_strict(outcome) ==
    /\ prog = "td"
    /\ tdPc = "gather"
    /\ Joined
    /\ outcome # "ok" => failures < MaxFailures
    /\ failures' = IF outcome = "ok" THEN failures ELSE failures + 1
    /\ LET how == IF \E c \in Calls : CallTab(c) = tdI /\ task[c].out = "failed"
                  THEN "gather_raises" ELSE outcome
       IN /\ tabResult' = [tabResult EXCEPT ![tdI] = TabOutcome(how)]
          /\ disk' = disk \cup TabFiles(tdI, how)
    /\ tdPc' = NextTab
    /\ tdI' = IF tdI < MaxTabs THEN tdI + 1 ELSE tdI
    /\ UNCHANGED <<prog, xVars, task, visited_urls, mVars>>

\* download_tab_post not waiting for gather: the page is processed and
\* written while download_resource calls are still running.
download_tab_post_early(outcome) ==
    /\ prog = "td"
    /\ tdPc = "gather"
    /\ outcome # "ok" => failures < MaxFailures
    /\ failures' = IF outcome = "ok" THEN failures ELSE failures + 1
    /\ tabResult' = [tabResult EXCEPT ![tdI] = TabOutcome(outcome)]
    /\ disk' = disk \cup TabFiles(tdI, outcome)
    /\ tdPc' = NextTab
    /\ tdI' = IF tdI < MaxTabs THEN tdI + 1 ELSE tdI
    /\ UNCHANGED <<prog, xVars, task, visited_urls, mVars>>

\* download_tab, lines 330-376, after gather has joined every call: the
\* screenshot, page.content(), raw.html, process_html and index.html.
\* When process_html raises, index.html gets the raw HTML; the tab still
\* returns True.  A failing screenshot or content() returns False.
download_tab_post(outcome) ==
    /\ prog = "td"
    /\ tdPc = "gather"
    /\ Joined
    /\ outcome # "ok" => failures < MaxFailures
    /\ failures' = IF outcome = "ok" THEN failures ELSE failures + 1
    /\ tabResult' = [tabResult EXCEPT ![tdI] = TabOutcome(outcome)]
    /\ disk' = disk \cup TabFiles(tdI, outcome)
    /\ tdPc' = NextTab
    /\ tdI' = IF tdI < MaxTabs THEN tdI + 1 ELSE tdI
    /\ UNCHANGED <<prog, xVars, task, visited_urls, mVars>>

InitTD ==
    /\ tdPc = "tab"
    /\ tdI = 1
    /\ task = <<>>
    /\ visited_urls = {}
    /\ disk = {}
    /\ tabResult = [i \in 1..MaxTabs |-> NotRun]
    /\ failures = 0

NextTD ==
    \/ \E o \in {"ok", "launch_raises", "click_raises"}, R \in ResourceSets : download_tab_open(o, R)
    \/ \E c \in Calls, r \in {"200", "500", "exception"} : download_resource_attempt(c, r)
    \/ \E o \in {"ok", "screenshot_raises", "content_raises", "process_html_raises"} : download_tab_post(o)

-----------------------------------------------------------------------------
(* Text.  A string is a sequence of one-character strings.                 *)

Str_index == <<"i", "n", "d", "e", "x">>
\* The fallback spelled with a capital.
Str_untitled_capital == <<"A", "n", "t">>

Str_untitled == <<"u", "n", "t", "i", "t", "l", "e", "d">>

\* str.lower() over the upper-case letters the model's texts use; the last
\* is a letter outside a-z in either case.
UpperToLower == [c \in {"A", "T", "P", "S", "N", "É"} |->
                    CASE c = "A" -> "a" [] c = "T" -> "t" [] c = "P" -> "p"
                      [] c = "S" -> "s" [] c = "N" -> "n" [] OTHER -> "é"]

\* The characters of [a-z0-9] the model's texts use.
SlugChars == {"a", "b", "c", "d", "e", "f", "g", "h", "i", "k", "l", "n", "o", "p",
              "r", "s", "t", "u", "x", "y", "0", "1", "2"}
Whitespace == {" "}

RECURSIVE StripLeft(_, _)
StripLeft(s, set) ==
    IF s # <<>> /\ Head(s) \in set THEN StripLeft(Tail(s), set) ELSE s

RECURSIVE StripRight(_, _)
StripRight(s, set) ==
    IF s # <<>> /\ s[Len(s)] \in set THEN StripRight(SubSeq(s, 1, Len(s) - 1), set) ELSE s

\* strip that leaves the right end alone.
Strip_left_only(s, set) == StripLeft(s, set)

\* str.strip(chars)
Strip(s, set) == StripRight(StripLeft(s, set), set)

Lower(s) == [i \in 1..Len(s) |-> (IF s[i] \in DOMAIN UpperToLower THEN UpperToLower[s[i]] ELSE s[i])]

\* re.sub(r'[^a-z0-9]+', '-', s): every maximal run of other characters
\* becomes one hyphen.
RECURSIVE SubRuns(_, _)
SubRuns(s, inRun) ==
    IF s = <<>> THEN <<>>
    ELSE IF Head(s) \in SlugChars THEN <<Head(s)>> \o SubRuns(Tail(s), FALSE)
    ELSE IF inRun THEN SubRuns(Tail(s), TRUE)
    ELSE <<"-">> \o SubRuns(Tail(s), TRUE)

\* temp.py / streamlit_app.py:
\*   re.sub(r'[^a-z0-9]+', '-', text.strip().lower()).strip('-') or 'untitled'
slugify(text) ==
    LET r == Strip(SubRuns(Lower(Strip(text, Whitespace)), FALSE), {"-"})
    IN IF r = <<>> THEN Str_untitled ELSE r

-----------------------------------------------------------------------------
(* The dashboard that temp.py and streamlit_app.py mirror, as the browser  *)
(* shows it.  A top-level tab has a label, and clicking it leaves `lists`  *)
(* tab lists on the page (1: only the top-level one), the second of which  *)
(* holds the sub-tabs `subs`.                                              *)

L_About  == <<"A", "b", "o", "u", "t">>
L_Tokens == <<"T", "o", "k", "e", "n", "s">>
L_tokens == <<"t", "o", "k", "e", "n", "s", "!">>
L_Price  == <<"P", "r", "i", "c", "e">>
L_Supply == <<"S", "u", "p", "p", "l", "y">>

\* slugify over the labels of the dashboard, computed once.
Labels == {L_About, L_Tokens, L_tokens, L_Price, L_Supply}
SlugTable == [l \in Labels |-> slugify(l)]
slug_of(text) == IF text \in Labels THEN SlugTable[text] ELSE slugify(text)

\* A top-level tab: its label, the tab lists the page shows once it is
\* clicked, the labels of the second list, and whether the click puts the
\* tab into the page's URL.
Tab(label, lists, subs) == [label |-> label, lists |-> lists, subs |-> subs, routed |-> FALSE]
Routed(tab) == [tab EXCEPT !.routed = TRUE]

\* The tabs a dashboard is made of: tabs without a second tab list, two of
\* them with labels of the same slug; tabs with sub-tabs, two of them with
\* the same sub-tabs and one with a sub-tab labelled like the tab; a tab
\* whose second tab list is empty and whose click changes the URL.
TabChoices ==
    {Tab(L_About, 1, <<>>), Tab(L_Tokens, 1, <<>>), Tab(L_tokens, 1, <<>>),
     Tab(L_Tokens, 2, <<L_Price, L_Supply>>), Tab(L_About, 2, <<L_Price, L_Supply>>),
     Tab(L_Tokens, 2, <<L_Price, L_Tokens>>), Routed(Tab(L_About, 2, <<>>))}

\* number of top-level tabs of the dashboard
MaxTopTabs == 2

RECURSIVE SeqsUpTo(_, _)
SeqsUpTo(S, n) ==
    IF n = 0 THEN {<<>>}
    ELSE LET shorter == SeqsUpTo(S, n - 1)
         IN shorter \cup {Append(q, x) : q \in {r \in shorter : Len(r) = n - 1}, x \in S}

Dashboards == SeqsUpTo(TabChoices, MaxTopTabs)

\* A page of the mirror: directory (a slug, or <<>> for the output root)
\* and file stem; the file is <dir>/<stem>.html.
PagePath(dir, stem) == [dir |-> dir, stem |-> stem]

\* relpath giving the path from the output root, whatever the page's directory.
relpath_from_root(target, current_dir) ==
    [ups |-> 0, dir |-> target.dir, stem |-> target.stem]

\* os.path.relpath(base/target, base/current_dir), as the string's parts:
\* `ups` leading "..", then the directory (if any), then the file.
relpath(target, current_dir) ==
    IF target.dir = current_dir
    THEN [ups |-> 0, dir |-> <<>>, stem |-> target.stem]
    ELSE [ups |-> IF current_dir = <<>> THEN 0 ELSE 1, dir |-> target.dir, stem |-> target.stem]

\* An element of a page: tag, role attribute, text, href ("" for none,
\* "orig" for the dashboard's own, or a relpath), class attribute and the
\* number of times rewrite_links' style suffix has been appended.
Elem(tag, role, text, href, class, styled) ==
    [tag |-> tag, role |-> role, text |-> text, href |-> href, class |-> class, styled |-> styled]

NoHref == [ups |-> 0, dir |-> <<>>, stem |-> <<>>]
OrigHref == [ups |-> 0, dir |-> <<>>, stem |-> <<"#">>]

TabButton(label) == Elem("button", "tab", label, NoHref, "tabcls", 0)

\* soup.select('a, button, [role="button"]')
IsNavElement(el) == el.tag \in {"a", "button"} \/ el.role = "button"

\* rewrite_element turning every navigation element into a link, whether
\* or not the Site Map has its slug.
rewrite_element_all(el, current_dir, a_site_map) ==
    LET text == Strip(el.text, Whitespace)
        slug == slug_of(text)
        relative_path == IF slug \in DOMAIN a_site_map
                         THEN relpath(a_site_map[slug], current_dir)
                         ELSE relpath(PagePath(<<>>, Str_index), current_dir)
    IN IF ~IsNavElement(el) \/ text = <<>>
       THEN el
       ELSE IF el.tag = "a"
       THEN [el EXCEPT !.href = relative_path]
       ELSE Elem("a", "", el.text, relative_path, el.class, el.styled + 1)

\* rewrite_links, one element: an element whose stripped text slugifies to
\* a key of the Site Map gets the relative path of the mapped page: an <a>
\* keeps everything but its href; anything else is replaced by a new <a>
\* that takes over the class and the text and gets the style suffix.
rewrite_element(el, current_dir, a_site_map) ==
    LET text == Strip(el.text, Whitespace)
        slug == slug_of(text)
    IN IF ~IsNavElement(el) \/ text = <<>> \/ slug \notin DOMAIN a_site_map
       THEN el
       ELSE LET relative_path == relpath(a_site_map[slug], current_dir)
            IN IF el.tag = "a"
               THEN [el EXCEPT !.href = relative_path]
               ELSE Elem("a", "", el.text, relative_path, el.class, el.styled + 1)

\* temp.py / streamlit_app.py rewrite_links over the elements of a page.
rewrite_links(soup, current_html_path, a_site_map) ==
    [n \in 1..Len(soup) |-> rewrite_element(soup[n], current_html_path.dir, a_site_map)]

-----------------------------------------------------------------------------
(* save_page_with_assets.                                                  *)

\* number of calls that raise, or GETs that fail, in one run of main
MaxRaises == 1

N == Len(dash)

UrlCdnCss == Url("abs", CdnHost, 0, <<"theme.css">>, "")

\* The <link rel="stylesheet"> tags of every page of the dashboard.
PageLinks == <<UrlCssRoot, UrlCdnCss>>

\* The elements page.content() holds when top-level tab `top` is shown: the
\* tab buttons, the sub-tab buttons of the tab shown, a link bearing the
\* last tab's label and a heading bearing the first tab's.
PageSoup(top) ==
    [n \in 1..N |-> TabButton(dash[n].label)]
    \o (IF top \in 1..N /\ dash[top].lists > 1
        THEN [n \in 1..Len(dash[top].subs) |-> TabButton(dash[top].subs[n])]
        ELSE <<>>)
    \o <<Elem("a", "", IF N = 0 THEN L_About ELSE dash[N].label, OrigHref, "", 0),
         Elem("h1", "", IF N = 0 THEN L_About ELSE dash[1].label, NoHref, "", 0)>>

\* temp.py, lines 55-58: a file slug equal to the directory's name becomes
\* "index".  streamlit_app.py has no such step.
FileSlug(output_dir, file_slug) ==
    IF prog = "temp" /\ output_dir = file_slug THEN Str_index ELSE file_slug

\* os.path.basename(abs_css_url.split('?')[0]) or "style.css"
css_filename(abs_css_url) ==
    IF abs_css_url.path = <<>> THEN "style.css" ELSE abs_css_url.path[Len(abs_css_url.path)]

\* save_page_with_assets: every stylesheet link is resolved against the
\* page URL and fetched by download_resource (session.get, no check of the
\* host); a link whose download returned True is pointed at the local copy.
\* Then rewrite_links, and the page is written.  `ok` holds the indices of
\* the links whose GET is answered 200.  A written file is recorded with
\* its elements (soup), its stylesheet links, and the elements that
\* page.content() returned (html).
save_page_with_assets(output_dir, file_slug, a_site_map, ok) ==
    LET slug == FileSlug(output_dir, file_slug)
        fpath == PagePath(output_dir, slug)
        abs(n) == urljoin(base_url, PageLinks[n])
        links == [n \in 1..Len(PageLinks) |-> [url |-> PageLinks[n], local |-> n \in ok]]
        html == PageSoup(active'.top)
        soup == rewrite_links(html, fpath, a_site_map)
    IN /\ gets' = gets \cup {abs(n) : n \in 1..Len(PageLinks)}
       /\ assets' = assets \cup {<<output_dir, slug, css_filename(abs(n))>> : n \in ok}
       /\ files' = [q \in DOMAIN files \cup {fpath} |->
                       IF q = fpath THEN [soup |-> soup, links |-> links, html |-> html]
                       ELSE files[q]]

\* The ways the stylesheet GETs of one page can go within the budget.
OkSets == {ok \in SUBSET (1..Len(PageLinks)) :
              raises + (Len(PageLinks) - Cardinality(ok)) <= MaxRaises}
Failed(ok) == Len(PageLinks) - Cardinality(ok)

-----------------------------------------------------------------------------
(* discover_site_structure, main (temp.py) and main_scraper                *)
(* (streamlit_app.py).                                                     *)

RootDir == <<>>

\* Put keeping the value of a key that is in the dictionary.
Put_keep_first(m, k, v) == [x \in DOMAIN m \cup {k} |-> IF x \in DOMAIN m THEN m[x] ELSE v]

\* site_map[k] = v
Put(m, k, v) == [x \in DOMAIN m \cup {k} |-> IF x = k THEN v ELSE m[x]]

\* PutSubs with each sub-tab's file in a directory named after the sub-tab.
RECURSIVE PutSubs_own_dir(_, _, _)
PutSubs_own_dir(m, main_slug, subs) ==
    IF subs = <<>> THEN m
    ELSE PutSubs_own_dir(Put(m, slug_of(Head(subs)), PagePath(slug_of(Head(subs)), slug_of(Head(subs)))),
                         main_slug, Tail(subs))

\* discover_site_structure, the loop over sub_tabs_handles: one dictionary
\* assignment per sub-tab, in order.
RECURSIVE PutSubs(_, _, _)
PutSubs(m, main_slug, subs) ==
    IF subs = <<>> THEN m
    ELSE PutSubs(Put(m, slug_of(Head(subs)), PagePath(main_slug, slug_of(Head(subs)))),
                 main_slug, Tail(subs))

\* discover_entries giving a tab without sub-tabs the file <slug>/<slug>.html.
discover_entries_no_index(m, tab) ==
    LET main_slug == slug_of(tab.label)
    IN IF tab.lists <= 1
       THEN Put(m, main_slug, PagePath(main_slug, main_slug))
       ELSE IF tab.subs = <<>> THEN m
       ELSE PutSubs(Put(m, main_slug, PagePath(main_slug, slug_of(tab.subs[1]))),
                    main_slug, tab.subs)

\* discover_entries sending a tab with sub-tabs to its own index.html.
discover_entries_main_index(m, tab) ==
    LET main_slug == slug_of(tab.label)
    IN IF tab.lists <= 1
       THEN Put(m, main_slug, PagePath(main_slug, Str_index))
       ELSE IF tab.subs = <<>> THEN m
       ELSE PutSubs(Put(m, main_slug, PagePath(main_slug, Str_index)), main_slug, tab.subs)

\* discover_site_structure, the assignments of one iteration of the loop
\* over the top-level tabs.
discover_entries(m, tab) ==
    LET main_slug == slug_of(tab.label)
    IN IF tab.lists <= 1
       THEN Put(m, main_slug, PagePath(main_slug, Str_index))
       ELSE IF tab.subs = <<>> THEN m
       ELSE PutSubs(Put(m, main_slug, PagePath(main_slug, slug_of(tab.subs[1]))),
                    main_slug, tab.subs)

Raise(what) ==
    /\ (raises < MaxRaises)
    /\ raises' = raises + 1
    /\ lastRaise' = what

Abort(what) ==
    /\ Raise(what)
    /\ mPc' = "aborted"

IsMirror == prog \in {"temp", "streamlit"}

\* page.url: of a new page, of the dashboard (the `url` main is called
\* with), and after the click of a tab.
BlankUrl == <<"about:blank">>
RootUrl == <<"https://dash.xyz/board">>
ClickUrl(tab, current) == IF tab.routed THEN RootUrl \o <<"?tab=">> \o slug_of(tab.label) ELSE current

\* The top-level tab a page loaded from address u shows.
ShownAt(u) ==
    IF \E i \in 1..N : ClickUrl(dash[i], RootUrl) = u /\ dash[i].routed
    THEN CHOOSE i \in 1..N : ClickUrl(dash[i], RootUrl) = u /\ dash[i].routed
    ELSE 1

\* The element handles of the scripts.  A step of a script is a record:
\*   "iter"   an iteration of a loop over tabs or over sub-tabs begins
\*   "query"  v = query_selector_all(...)
\*   "count"  len(v), or the truth value of v
\*   "read"   v[k].inner_text() or v[k].scroll_into_view_if_needed()
\*   "click"  v[k].click()
\*   "wait"   wait_for_timeout, wait_for_load_state, sleep
\*   "goto"   page.goto
\* and `handles` holds
\*   fresh    the lists queried since the last click, wait or goto
\*   here     the lists queried in the current iteration
\*   used     the lists of which a handle has been read or clicked
\*   misused  the lists of which a handle was read or clicked although the
\*            list was not in fresh or not in here
Ev(op, v) == [op |-> op, v |-> v]

HandleStep(h, e) ==
    CASE e.op = "query" -> [h EXCEPT !.fresh = @ \cup {e.v}, !.here = @ \cup {e.v}]
      [] e.op \in {"read", "click"} ->
             [h EXCEPT !.used = @ \cup {e.v},
                       !.misused = IF e.v \in h.fresh \cap h.here THEN @ ELSE @ \cup {e.v},
                       !.fresh = IF e.op = "click" THEN {} ELSE @]
      [] e.op \in {"wait", "goto"} -> [h EXCEPT !.fresh = {}]
      [] e.op = "iter" -> [h EXCEPT !.here = {}]
      [] OTHER -> h

RECURSIVE HandleRun(_, _)
HandleRun(h, steps) ==
    IF steps = <<>> THEN h ELSE HandleRun(HandleStep(h, Head(steps)), Tail(steps))

\* The steps up to and with the first step e: the call that raises.
Upto(steps, e) ==
    IF \E k \in DOMAIN steps : steps[k] = e
    THEN SubSeq(steps, 1, CHOOSE k \in DOMAIN steps : steps[k] = e /\ \A m \in 1..(k - 1) : steps[m] # e)
    ELSE steps

\* main_scraper, lines 270-276: the handles queried before discovery.
start_steps(p) ==
    IF p = "streamlit"
    THEN <<Ev("wait", ""), Ev("query", "main_tabs_handles"), Ev("count", "main_tabs_handles")>>
    ELSE <<>>

\* discover_site_structure, the query before the loop.
discover_pre_steps == <<Ev("query", "disc_main_tabs_handles"), Ev("count", "disc_main_tabs_handles")>>

\* discover_site_structure, one iteration of the loop.
discover_steps(tab) ==
    <<Ev("iter", ""), Ev("query", "main_tabs"), Ev("read", "main_tabs"), Ev("click", "main_tabs"),
      Ev("wait", ""), Ev("query", "all_tablists"), Ev("count", "all_tablists")>>
    \o (IF tab.lists <= 1 THEN <<>>
        ELSE <<Ev("query", "sub_tabs_handles"), Ev("count", "sub_tabs_handles")>>
             \o (IF tab.subs = <<>> THEN <<>>
                 ELSE <<Ev("read", "sub_tabs_handles")>>
                      \o [k \in 1..Len(tab.subs) |-> Ev("read", "sub_tabs_handles")]))

\* discover_site_structure, after the loop; in main the query before the
\* capture loop follows.
return_steps(p) ==
    <<Ev("goto", "")>>
    \o (IF p = "temp" THEN <<Ev("query", "main_tabs_handles"), Ev("count", "main_tabs_handles")>> ELSE <<>>)

\* The capture loop with the click on the handle list queried before the
\* loop.
capture_tab_steps_stale(p, tab) ==
    <<Ev("iter", ""), Ev("query", "main_tabs"), Ev("read", "main_tabs"),
      Ev("click", "main_tabs_handles"), Ev("wait", ""),
      Ev("query", "all_tablists"), Ev("count", "all_tablists")>>

\* main / main_scraper, one iteration of the capture loop up to the loop
\* over the sub-tabs.
capture_tab_steps(p, tab) ==
    <<Ev("iter", ""), Ev("query", "main_tabs")>>
    \o (IF p = "streamlit" THEN <<Ev("count", "main_tabs")>> ELSE <<>>)
    \o <<Ev("read", "main_tabs")>>
    \o (IF p = "streamlit" THEN <<Ev("read", "main_tabs")>> ELSE <<>>)
    \o <<Ev("click", "main_tabs"), Ev("wait", ""),
         Ev("query", "all_tablists"), Ev("count", "all_tablists")>>
    \o (IF tab.lists <= 1 THEN <<>>
        ELSE <<Ev("query", "sub_tab_buttons"), Ev("count", "sub_tab_buttons")>>)

\* main / main_scraper, one iteration of the loop over the sub-tabs.
capture_sub_steps ==
    <<Ev("iter", ""), Ev("query", "all_tablists"), Ev("count", "all_tablists"),
      Ev("query", "sub_tabs"), Ev("read", "sub_tabs"), Ev("click", "sub_tabs"), Ev("wait", "")>>

\* The step at which an outcome's call raises.
RaisingStep(outcome) ==
    CASE outcome = "label_raises" -> Ev("read", "main_tabs")
      [] outcome = "click_raises" -> Ev("click", "main_tabs")
      [] outcome = "sub_label_raises" -> Ev("read", "sub_tabs_handles")
      [] OTHER -> Ev("none", "")

RaisingSubStep(outcome) ==
    CASE outcome = "label_raises" -> Ev("read", "sub_tabs")
      [] outcome = "click_raises" -> Ev("click", "sub_tabs")
      [] OTHER -> Ev("none", "")

\* navigate_with_retry's default max_retries and the factor of wait_time.
nav_max_retries == 3
wait_time_unit == 5

\* The locals of navigate_with_retry while it runs, and of nothing when it
\* has returned.
NoNavigation == [attempts |-> 0, sleeps |-> <<>>, raised |-> FALSE]

\* if Path(out_dir_base).exists(): shutil.rmtree(out_dir_base), then mkdir.
rmtree_and_mkdir(d) ==
    [exists |-> TRUE, old |-> FALSE, rmtrees |-> d.rmtrees + (IF d.exists THEN 1 ELSE 0)]

\* navigate_with_retry with the output directory emptied before the first
\* page.goto.
navigate_with_retry_rmtree_first(result) ==
    /\ prog = "streamlit"
    /\ mPc = "start"
    /\ nav.attempts < nav_max_retries
    /\ out_dir' = IF nav.attempts = 0 THEN rmtree_and_mkdir(out_dir) ELSE out_dir
    /\ UNCHANGED <<prog, xVars, tdVars, dash, tablist, mI, mJ, site_map, active, files, assets, gets,
                   tabRaised, nameBound, handles>>
    /\ IF result = "ok"
       THEN /\ nav' = [clicks |-> 0] @@ NoNavigation
            /\ page_url' = RootUrl
            /\ mPc' = "loaded"
            /\ UNCHANGED <<raises, lastRaise>>
       ELSE /\ UNCHANGED page_url
            /\ IF nav.attempts < nav_max_retries - 1
               THEN /\ nav' = [nav EXCEPT !.attempts = @ + 1,
                                          !.sleeps = Append(@, wait_time_unit * (nav.attempts + 1))]
                    /\ UNCHANGED <<mPc, raises, lastRaise>>
               ELSE /\ nav' = [nav EXCEPT !.attempts = @ + 1, !.raised = TRUE]
                    /\ Abort("goto")

\* navigate_with_retry, lines 202-224, one turn of its loop: page.goto
\* returns, or it raises and the function sleeps 5 * (attempt + 1) seconds
\* unless that was the last attempt, after which it raises last_error.
navigate_with_retry(result) ==
    /\ prog = "streamlit"
    /\ mPc = "start"
    /\ nav.attempts < nav_max_retries
    /\ UNCHANGED out_dir
    /\ UNCHANGED <<prog, xVars, tdVars, dash, tablist, mI, mJ, site_map, active, files, assets, gets,
                   tabRaised, nameBound, handles>>
    /\ IF result = "ok"
       THEN /\ nav' = [clicks |-> 0] @@ NoNavigation
            /\ page_url' = RootUrl
            /\ mPc' = "loaded"
            /\ UNCHANGED <<raises, lastRaise>>
       ELSE /\ UNCHANGED page_url
            /\ IF nav.attempts < nav_max_retries - 1
               THEN /\ nav' = [nav EXCEPT !.attempts = @ + 1,
                                          !.sleeps = Append(@, wait_time_unit * (nav.attempts + 1))]
                    /\ UNCHANGED <<mPc, raises, lastRaise>>
               ELSE /\ nav' = [nav EXCEPT !.attempts = @ + 1, !.raised = TRUE]
                    /\ Abort("goto")

\* The click() calls among the steps of an iteration.
ClickCalls(steps) == Cardinality({k \in DOMAIN steps : steps[k].op = "click"})

\* main, up to the call of discover_site_structure: page.goto.
\* main_scraper, from the return of navigate_with_retry to that call: rmtree and mkdir
\* of the output directory, wait_for_selector, and the single page saved
\* when the first tab list holds no tab.  wait_for_selector raises after
\* its timeout when the page holds no tab list.
main_start(outcome, ok) ==
    /\ IsMirror
    /\ mPc = (IF prog = "streamlit" THEN "loaded" ELSE "start")
    /\ outcome = "goto_raises" => prog = "temp"
    /\ (prog = "streamlit" /\ ~tablist) => outcome = "selector_raises"
    /\ out_dir' = IF prog = "streamlit" THEN rmtree_and_mkdir(out_dir) ELSE out_dir
    /\ UNCHANGED nav
    /\ UNCHANGED <<prog, xVars, tdVars, dash, tablist, mI, mJ, site_map, active, tabRaised, nameBound>>
    /\ page_url' = IF outcome = "goto_raises" THEN page_url ELSE RootUrl
    /\ handles' = IF outcome \in {"goto_raises", "selector_raises"} THEN handles
                   ELSE HandleRun(handles, start_steps(prog))
    /\ CASE outcome = "goto_raises" ->
                Abort("goto") /\ UNCHANGED <<files, assets, gets>>
         [] outcome = "selector_raises" ->
                /\ prog = "streamlit"
                /\ Abort("selector") /\ UNCHANGED <<files, assets, gets>>
         [] outcome = "save_raises" ->
                /\ prog = "streamlit" /\ N = 0
                /\ Abort("save") /\ UNCHANGED <<files, assets, gets>>
         [] outcome = "ok" ->
                IF prog = "streamlit" /\ N = 0
                THEN /\ ok \in OkSets
                     /\ save_page_with_assets(RootDir, Str_index, <<>>, ok)
                     /\ raises' = raises + Failed(ok)
                     /\ mPc' = "done"
                     /\ UNCHANGED lastRaise
                ELSE /\ ok = {}
                     /\ mPc' = "disc"
                     /\ UNCHANGED <<files, assets, gets, raises, lastRaise>>

\* discover_site_structure, one iteration of the loop over the top-level
\* tabs: inner_text, click, and the Site Map entries of the tab.
discover_tab(outcome) ==
    /\ IsMirror
    /\ mPc = "disc"
    /\ mI <= N
    /\ UNCHANGED <<prog, xVars, tdVars, dash, tablist, mJ, files, assets, gets, tabRaised, nameBound>>
    /\ UNCHANGED <<nav, out_dir>>
    /\ handles' = HandleRun(handles, (IF mI = 1 THEN discover_pre_steps ELSE <<>>)
                                      \o Upto(discover_steps(dash[mI]), RaisingStep(outcome)))
    /\ CASE outcome = "label_raises" ->
                Abort("disc_label") /\ UNCHANGED <<mI, site_map, active, page_url>>
         [] outcome = "click_raises" ->
                Abort("disc_click") /\ UNCHANGED <<mI, site_map, active, page_url>>
         [] outcome = "sub_label_raises" ->
                /\ dash[mI].lists > 1 /\ dash[mI].subs # <<>>
                /\ Abort("disc_label")
                /\ active' = [top |-> mI, sub |-> 1]
                /\ page_url' = ClickUrl(dash[mI], page_url)
                /\ UNCHANGED <<mI, site_map>>
         [] outcome = "ok" ->
                /\ active' = [top |-> mI, sub |-> 1]
                /\ page_url' = ClickUrl(dash[mI], page_url)
                /\ site_map' = discover_entries(site_map, dash[mI])
                /\ mI' = mI + 1
                /\ UNCHANGED <<mPc, raises, lastRaise>>

\* discover_site_structure, after the loop: page.goto(page.url) loads the
\* address the page is at again.  In main the output directory is removed and created anew
\* before the capture loop starts.
discover_return(outcome) ==
    /\ IsMirror
    /\ mPc = "disc"
    /\ mI > N
    /\ UNCHANGED <<prog, xVars, tdVars, dash, tablist, mJ, site_map, gets, tabRaised, nameBound, page_url>>
    /\ UNCHANGED nav
    /\ out_dir' = IF prog = "temp" /\ outcome = "ok" THEN rmtree_and_mkdir(out_dir) ELSE out_dir
    /\ handles' = HandleRun(handles, (IF N = 0 THEN discover_pre_steps ELSE <<>>)
                                      \o (IF outcome = "ok" THEN return_steps(prog) ELSE <<Ev("goto", "")>>))
    /\ CASE outcome = "goto_raises" ->
                Abort("disc_goto") /\ UNCHANGED <<mI, active, files, assets>>
         [] outcome = "ok" ->
                /\ active' = [top |-> ShownAt(page_url), sub |-> 1]
                /\ mI' = 1
                /\ mPc' = IF N = 0 THEN "done" ELSE "cap"
                /\ files' = IF prog = "temp" THEN <<>> ELSE files
                /\ assets' = IF prog = "temp" THEN {} ELSE assets
                /\ UNCHANGED <<raises, lastRaise>>

\* The end of one iteration of the capture loop over the top-level tabs;
\* after the last one the browser is closed.
NextTopTab ==
    /\ mI' = mI + 1
    /\ mPc' = IF mI = N THEN "done" ELSE "cap"

\* The capture loop without its try/except: the exception leaves main.
CaughtByTab_uncaught(what) ==
    /\ Abort(what)
    /\ UNCHANGED <<mI, tabRaised>>

\* An exception that the `except Exception as e` of the capture loop
\* catches: the rest of the tab is skipped.
CaughtByTab(what) ==
    /\ Raise(what)
    /\ tabRaised' = tabRaised \cup {mI}
    /\ NextTopTab

\* What save_page_with_assets is called with for the page of a tab without
\* sub-tabs and for the page of sub-tab j.
TabOutDir(i) == slug_of(dash[i].label)

\* main / main_scraper, one iteration of the capture loop up to the loop
\* over the sub-tabs: inner_text, click, mkdir and, for a tab without a
\* second tab list, save_page_with_assets.  In main inner_text is called
\* before the try; in main_scraper inside it, and the handler's message
\* reads `name`, which is unbound until the first inner_text has returned.
capture_tab(outcome, ok) ==
    /\ IsMirror
    /\ mPc = "cap"
    /\ UNCHANGED <<prog, xVars, tdVars, dash, tablist, out_dir, site_map>>
    /\ handles' = HandleRun(handles, Upto(capture_tab_steps(prog, dash[mI]), RaisingStep(outcome)))
    /\ nav' = [nav EXCEPT !.clicks = ClickCalls(Upto(capture_tab_steps(prog, dash[mI]), RaisingStep(outcome)))]
    /\ CASE outcome = "label_raises" ->
                /\ IF prog = "temp" \/ ~nameBound
                   THEN Abort("cap_label") /\ UNCHANGED <<mI, tabRaised>>
                   ELSE CaughtByTab("cap_label")
                /\ UNCHANGED <<mJ, active, files, assets, gets, nameBound, page_url>>
         [] outcome = "click_raises" ->
                /\ CaughtByTab("cap_click")
                /\ nameBound' = TRUE
                /\ UNCHANGED <<mJ, active, files, assets, gets, page_url>>
         [] outcome = "save_raises" ->
                /\ dash[mI].lists <= 1
                /\ CaughtByTab("cap_save")
                /\ nameBound' = TRUE
                /\ active' = [top |-> mI, sub |-> 1]
                /\ page_url' = ClickUrl(dash[mI], page_url)
                /\ UNCHANGED <<mJ, files, assets, gets>>
         [] outcome = "ok" ->
                /\ nameBound' = TRUE
                /\ active' = [top |-> mI, sub |-> 1]
                /\ page_url' = ClickUrl(dash[mI], page_url)
                /\ UNCHANGED <<lastRaise, tabRaised>>
                /\ IF dash[mI].lists <= 1
                   THEN /\ ok \in OkSets
                        /\ save_page_with_assets(TabOutDir(mI), Str_index, site_map, ok)
                        /\ raises' = raises + Failed(ok)
                        /\ NextTopTab
                        /\ UNCHANGED mJ
                   ELSE /\ ok = {}
                        /\ UNCHANGED <<files, assets, gets, raises>>
                        /\ IF dash[mI].subs = <<>>
                           THEN NextTopTab /\ UNCHANGED mJ
                           ELSE mPc' = "sub" /\ mJ' = 1 /\ UNCHANGED mI

\* The end of one iteration of the loop over the sub-tabs.
NextSubTab ==
    IF mJ = Len(dash[mI].subs)
    THEN NextTopTab /\ UNCHANGED mJ
    ELSE mJ' = mJ + 1 /\ UNCHANGED <<mI, mPc>>

\* An exception that the `except Exception as sub_e` of the sub-tab loop
\* catches: the next sub-tab is tried.
CaughtBySubTab(what) ==
    /\ Raise(what)
    /\ tabRaised' = tabRaised \cup {mI}
    /\ NextSubTab

\* main / main_scraper, one iteration of the loop over the sub-tabs:
\* inner_text (outside the inner try), click and save_page_with_assets.
capture_sub(outcome, ok) ==
    /\ IsMirror
    /\ mPc = "sub"
    /\ UNCHANGED <<prog, xVars, tdVars, dash, tablist, out_dir, site_map, nameBound, page_url>>
    /\ handles' = HandleRun(handles, Upto(capture_sub_steps, RaisingSubStep(outcome)))
    /\ nav' = [nav EXCEPT !.clicks = ClickCalls(Upto(capture_sub_steps, RaisingSubStep(outcome)))]
    /\ CASE outcome = "label_raises" ->
                /\ CaughtByTab("sub_label")
                /\ UNCHANGED <<mJ, active, files, assets, gets>>
         [] outcome = "click_raises" ->
                /\ CaughtBySubTab("sub_click")
                /\ UNCHANGED <<active, files, assets, gets>>
         [] outcome = "save_raises" ->
                /\ CaughtBySubTab("sub_save")
                /\ active' = [top |-> mI, sub |-> mJ]
                /\ UNCHANGED <<files, assets, gets>>
         [] outcome = "ok" ->
                /\ ok \in OkSets
                /\ active' = [top |-> mI, sub |-> mJ]
                /\ save_page_with_assets(TabOutDir(mI), slug_of(dash[mI].subs[mJ]), site_map, ok)
                /\ raises' = raises + Failed(ok)
                /\ NextSubTab
                /\ UNCHANGED <<lastRaise, tabRaised>>

InitMirrorOn(D, T) ==
    /\ dash \in D
    /\ tablist \in T
    /\ dash # <<>> => tablist
    /\ out_dir = [exists |-> TRUE, old |-> TRUE, rmtrees |-> 0]
    /\ mPc = "start"
    /\ mI = 1
    /\ mJ = 1
    /\ site_map = <<>>
    /\ active = [top |-> 1, sub |-> 1]
    /\ files = <<>>
    /\ assets = {}
    /\ gets = {}
    /\ raises = 0
    /\ lastRaise = ""
    /\ tabRaised = {}
    /\ nameBound = FALSE
    /\ page_url = BlankUrl
    /\ handles = [fresh |-> {}, here |-> {}, used |-> {}, misused |-> {}]
    /\ nav = [attempts |-> 0, sleeps |-> <<>>, raised |-> FALSE, clicks |-> 0]

\* The variables of a program that does not run keep their initial values.
IdleTD == InitTD
IdleMirror == InitMirrorOn({<<>>}, {FALSE})

CaptureOutcomes == {"ok", "label_raises", "click_raises", "save_raises"}
LinkSets == SUBSET (1..Len(PageLinks))

-----------------------------------------------------------------------------
(* update_links.py.  An href is its part before the first "?" and whether  *)
(* a query follows; the part before is a shape and a slug:                 *)
(*   "root" /slug   "slash" /slug/   "index" /slug/index                   *)
(*   "abs" https://flipsidecrypto.xyz/slug   "home" /                      *)
(*   "local" downloaded_pages/slug/index.html   "landing" landing_page.html *)

\* number of <a href> elements of the file
MaxAnchors == 2
\* number of times the script is run on the file
MaxRuns == 2

Href(shape, slug, query) == [shape |-> shape, slug |-> slug, query |-> query]

HrefPool ==
    {Href(sh, sl, q) : sh \in {"root", "abs", "local"}, sl \in {"about", "other"},
                       q \in BOOLEAN}
    \cup {Href("slash", "about", FALSE), Href("index", "tokens", FALSE),
          Href("home", "", FALSE), Href("landing", "", FALSE)}

\* build_mapping: href_base in mapping, and mapping[href_base].
InMapping(h) ==
    \/ h.shape \in {"root", "slash", "index", "abs"} /\ h.slug \in {"about", "tokens"}
    \/ h.shape = "home"
Mapped(h) ==
    IF h.shape = "home" THEN Href("landing", "", FALSE) ELSE Href("local", h.slug, FALSE)

\* update_file, the body of the loop over soup.find_all("a", href=True).
update_href(h) == IF InMapping(h) THEN Mapped(h) ELSE h

\* update_file: every <a href> whose href, up to the query string, is a key
\* of the mapping gets the mapped path; a changed file is written back
\* after the old one has been renamed to <name>.bak.
update_file ==
    /\ prog = "update_links"
    /\ html_file.runs < MaxRuns
    /\ LET hrefs == [n \in 1..Len(html_file.hrefs) |-> update_href(html_file.hrefs[n])]
           changed == hrefs # html_file.hrefs
       IN html_file' = [hrefs |-> hrefs,
                        bak |-> IF changed THEN <<html_file.hrefs>> ELSE html_file.bak,
                        runs |-> html_file.runs + 1]
    /\ UNCHANGED <<prog, tdVars, mVars, we, slug_run, tabs_run>>

InitUpdateLinks ==
    html_file \in [hrefs : SeqsUpTo(HrefPool, MaxAnchors), bak : {<<>>}, runs : {0}]

IdleUpdateLinks == html_file = [hrefs |-> <<>>, bak |-> <<>>, runs |-> 0]

-----------------------------------------------------------------------------
(* WebpageExplorer.explore_website and explore_tab.  The class defines no  *)
(* process_html (the text after download_resource's last return is part   *)
(* of that method and never runs), so the call at line 712 raises          *)
(* AttributeError in every tab that gets that far; the except at line 742  *)
(* catches it and explore_tab returns False before any download_resource   *)
(* coroutine is created.                                                   *)
(*   pc          "start" | "tabs" | "done" | "aborted"                     *)
(*   n, i        the tabs find_navigation_buttons returned, the loop index *)
(*   shot, raw   tabs whose screenshot.png / raw.html was written          *)
(*   index       tabs whose index.html was written                         *)
(*   dispatched  tabs whose download_resource calls were handed to gather  *)
(*   joined      tabs whose gather returned                                *)
(*   ret         explore_tab's return values so far                        *)
(*   dr          the direct calls of download_resource: the URL, how the   *)
(*               call ended, its session.get calls, whether it wrote a     *)
(*               file or an entry of downloaded_resources                  *)

\* number of direct calls of WebpageExplorer.download_resource
MaxDirectCalls == 1

InitWE ==
    we = [pc |-> "start", n |-> 0, i |-> 1, shot |-> {}, raw |-> {}, index |-> {},
          dispatched |-> {}, joined |-> {}, ret |-> <<>>, dr |-> <<>>]

IdleWE == InitWE

\* explore_website, lines 748-766: launch, goto, find_navigation_buttons
\* (which returns at least the default tab 'Home').
explore_website_start(outcome, n) ==
    /\ prog = "we"
    /\ we.pc = "start"
    /\ we' = IF outcome = "goto_raises"
             THEN [we EXCEPT !.pc = "aborted"]
             ELSE [we EXCEPT !.pc = "tabs", !.n = n]
    /\ UNCHANGED <<prog, tdVars, mVars, html_file, slug_run, tabs_run>>

\* explore_tab, lines 617-746: the whole body is in one try; the
\* screenshot, page.content(), raw.html, then process_html.
explore_tab(outcome) ==
    /\ prog = "we"
    /\ we.pc = "tabs"
    /\ LET i == we.i
           shot == IF outcome = "screenshot_raises" THEN we.shot ELSE we.shot \cup {i}
           raw == IF outcome = "process_html_raises" THEN we.raw \cup {i} ELSE we.raw
       IN we' = [we EXCEPT !.shot = shot, !.raw = raw,
                           !.ret = Append(@, FALSE),
                           !.i = i + 1,
                           !.pc = IF i = we.n THEN "done" ELSE "tabs"]
    /\ UNCHANGED <<prog, tdVars, mVars, html_file, slug_run, tabs_run>>

\* The scheme test of download_resource, line 346.
SkippedScheme(url) == url.form = "data"

\* download_resource, lines 333-365: None at once for a data:, javascript:,
\* mailto: or tel: URL; for any other URL the call reaches hashlib.md5 at
\* line 363, and the module does not import hashlib.
WE_download_resource(url) ==
    /\ prog = "we"
    /\ Len(we.dr) < MaxDirectCalls
    /\ we' = [we EXCEPT !.dr = Append(@,
                 [url |-> url,
                  out |-> IF SkippedScheme(url) THEN "None" ELSE "NameError",
                  gets |-> 0, wrote |-> FALSE, cached |-> FALSE])]
    /\ UNCHANGED <<prog, tdVars, mVars, html_file, slug_run, tabs_run>>

-----------------------------------------------------------------------------
(* slugify applied to a text, and to its own result.                       *)

\* length of the texts
MaxLen == 4
\* number of times slugify is applied, each time to the last result
MaxApplications == 2

Texts == SeqsUpTo({"a", "1", "A", "-", " ", "!", "é", "É"}, MaxLen) \cup Labels \cup {Str_untitled}

InitSlugify == slug_run \in [text : Texts, outs : {<<>>}]

IdleSlugify == slug_run = [text |-> <<>>, outs |-> <<>>]

slugify_call ==
    /\ prog = "slugify"
    /\ Len(slug_run.outs) < MaxApplications
    /\ slug_run' = [slug_run EXCEPT !.outs = Append(@, slugify(IF @ = <<>> THEN slug_run.text ELSE @[Len(@)]))]
    /\ UNCHANGED <<prog, tdVars, mVars, html_file, we, tabs_run>>

-----------------------------------------------------------------------------
(* dynamic_downloader.extract_nav_tabs.  An element of the file is its tag, *)
(* its id as the parts of the string (<<>>: no id, or an empty one), its    *)
(* role and its text after get_text(strip=True).                            *)

\* number of elements of the file
MaxElements == 3

El(tag, id, role, text) == [tag |-> tag, id |-> id, role |-> role, text |-> text]

\* Buttons with an id that holds "trigger-tab-layout", at its start or
\* inside it, with and without text, two with the same id; role="tab" buttons with another id,
\* with no id; an <a> with the id and the role of a tab.
Elements ==
    {El("button", <<"trigger-tab-layout", "-a">>, "", "A"),
     El("button", <<"trigger-tab-layout", "-a">>, "", "B"),
     El("button", <<"x-", "trigger-tab-layout", "-b">>, "tab", ""),
     El("button", <<"overview">>, "tab", "O"),
     El("button", <<"details">>, "tab", ""),
     El("button", <<>>, "tab", "N"),
     El("a", <<"trigger-tab-layout", "-a">>, "tab", "A")}

\* x and "trigger-tab-layout" in x
HasTriggerId(e) == e.id # <<>> /\ \E k \in DOMAIN e.id : e.id[k] = "trigger-tab-layout"

IsTriggerButton(e) == e.tag = "button" /\ HasTriggerId(e)
IsRoleTabButton(e) == e.tag = "button" /\ e.role = "tab"
IsRoleTabButtonWithId(e) == IsRoleTabButton(e) /\ e.id # <<>>

\* {"name": btn.get_text(strip=True) or btn["id"], "id": btn["id"]}
TabEntry(e) == [name |-> IF e.text # "" THEN <<e.text>> ELSE e.id, id |-> e.id]

Entries(els) == [k \in DOMAIN els |-> TabEntry(els[k])]

\* Both strategies run, whatever the first one found.
Strategies_both(doc) ==
    Entries(SelectSeq(doc, IsTriggerButton)) \o Entries(SelectSeq(doc, IsRoleTabButtonWithId))

\* Lines 54-65: strategy 1, and strategy 2 if strategy 1 left tabs empty.
Strategies(doc) ==
    LET tabs == Entries(SelectSeq(doc, IsTriggerButton))
    IN IF tabs = <<>> THEN Entries(SelectSeq(doc, IsRoleTabButtonWithId)) ELSE tabs

\* Lines 67-73: the entries whose id has not been seen, in order.
RECURSIVE Unique(_, _)
Unique(tabs, seen) ==
    IF tabs = <<>> THEN <<>>
    ELSE IF Head(tabs).id \in seen THEN Unique(Tail(tabs), seen)
         ELSE <<Head(tabs)>> \o Unique(Tail(tabs), seen \cup {Head(tabs).id})

extract_nav_tabs(doc) == Unique(Strategies(doc), {})

InitNavTabs == tabs_run \in [doc : SeqsUpTo(Elements, MaxElements), out : {<<>>}, returned : {FALSE}]

IdleNavTabs == tabs_run = [doc |-> <<>>, out |-> <<>>, returned |-> FALSE]

extract_nav_tabs_call ==
    /\ prog = "nav_tabs"
    /\ ~tabs_run.returned
    /\ tabs_run' = [tabs_run EXCEPT !.out = extract_nav_tabs(tabs_run.doc), !.returned = TRUE]
    /\ UNCHANGED <<prog, tdVars, mVars, html_file, we, slug_run>>

-----------------------------------------------------------------------------
Init ==
    \/ prog = "td" /\ InitTD /\ IdleMirror /\ IdleUpdateLinks /\ IdleWE /\ IdleSlugify /\ IdleNavTabs
    \/ prog \in {"temp", "streamlit"} /\ InitMirrorOn(Dashboards, BOOLEAN) /\ IdleTD /\ IdleUpdateLinks /\ IdleWE /\ IdleSlugify /\ IdleNavTabs
    \/ prog = "update_links" /\ InitUpdateLinks /\ IdleTD /\ IdleMirror /\ IdleWE /\ IdleSlugify /\ IdleNavTabs
    \/ prog = "we" /\ InitWE /\ IdleTD /\ IdleMirror /\ IdleUpdateLinks /\ IdleSlugify /\ IdleNavTabs
    \/ prog = "slugify" /\ InitSlugify /\ IdleTD /\ IdleMirror /\ IdleUpdateLinks /\ IdleWE /\ IdleNavTabs
    \/ prog = "nav_tabs" /\ InitNavTabs /\ IdleTD /\ IdleMirror /\ IdleUpdateLinks /\ IdleWE /\ IdleSlugify

Next ==
    \/ NextTD
    \/ \E result \in {"ok", "raises"} : navigate_with_retry(result)
    \/ \E outcome \in {"ok", "goto_raises", "selector_raises", "save_raises"}, ok \in LinkSets : main_start(outcome, ok)
    \/ \E outcome \in {"ok", "label_raises", "click_raises", "sub_label_raises"} : discover_tab(outcome)
    \/ \E outcome \in {"ok", "goto_raises"} : discover_return(outcome)
    \/ \E outcome \in CaptureOutcomes, ok \in LinkSets : capture_tab(outcome, ok)
    \/ \E outcome \in CaptureOutcomes, ok \in LinkSets : capture_sub(outcome, ok)
    \/ update_file
    \/ \E outcome \in {"ok", "goto_raises"}, n \in 1..MaxTabs : explore_website_start(outcome, n)
    \/ \E outcome \in {"screenshot_raises", "content_raises", "process_html_raises"} : explore_tab(outcome)
    \/ \E url \in UrlPool \cup {UrlData} : WE_download_resource(url)
    \/ slugify_call
    \/ extract_nav_tabs_call

Spec == Init /\ [][Next]_vars

-----------------------------------------------------------------------------
(* Claims about TabDownloader.                                             *)

LocalPathOf(c) == get_local_path(Absolutize(CallUrl(c)), TabName(CallTab(c)))

\* C1: of two download_resource calls for the same canonical URL, the
\* second made after the first has downloaded it, only the first issues a
\* GET and writes a file.  (Stated as the claim; the code violates it.)
C1_SecondCallFetchesNothing ==
    \A c \in Calls, d \in Calls :
        ( /\ CallTab(d) < CallTab(c)
          /\ Canon(CallUrl(d)) = Canon(CallUrl(c))
          /\ task[d].out = "downloaded" )
        => (Gets(c) = 0 /\ ~Wrote(c))

\* C2: among the calls that one asyncio.gather runs concurrently, at most
\* one issues GETs for any one canonical resource.  (Stated as the claim;
\* the code violates it.)
C2_OneFetcherPerResource ==
    \A i \in 1..MaxTabs, k \in {Canon(u) : u \in UrlPool} :
        Cardinality({c \in Calls : CallTab(c) = i /\ Canon(CallUrl(c)) = k /\ Gets(c) > 0}) <= 1

\* C4: a call is given up ("failed") only after max_retries + 1 failed
\* attempts, never makes a further attempt, and a call whose first two
\* attempts failed and whose third was answered 200 has returned as
\* downloaded with its file on disk.
C4_RetryThenSuccess ==
    \A c \in Calls :
        /\ task[c].attempt <= max_retries
        /\ Gets(c) <= max_retries + 1
        /\ task[c].out = "failed" => Gets(c) = max_retries + 1
        /\ (task[c].attempt = max_retries /\ task[c].pc = "ret")
              => task[c].out \in {"downloaded", "failed"}
        /\ task[c].out = "downloaded"
              => (task[c].pc = "ret" /\ LocalPathOf(c) \in disk /\ CallUrl(c) \in visited_urls)

C4_Witness ==
    \E c \in Calls : task[c].attempt = max_retries /\ task[c].out = "downloaded"
                     /\ LocalPathOf(c) \in disk

\* C5: a call whose every attempt failed has made exactly max_retries + 1
\* attempts and has returned; its failure does not end the run, and the tab
\* that dispatched it, unless one of its browser calls raises, returns True
\* with raw.html and index.html written.
TabFailedCalls(i) == {c \in Calls : CallTab(c) = i /\ task[c].out = "failed"}

C5_FailedResourceDoesNotAbort ==
    /\ \A c \in Calls : task[c].out = "failed" => (task[c].pc = "ret" /\ Gets(c) = max_retries + 1)
    /\ \A i \in 1..MaxTabs :
          (TabFailedCalls(i) # {} /\ (tdI > i \/ tdPc = "done"))
          => \/ tabResult[i].how \in {"screenshot_raises", "content_raises"}
             \/ /\ tabResult[i].ret = "true"
                /\ {TabDir(i) \o <<"raw.html">>, TabDir(i) \o <<"index.html">>} \subseteq disk
    /\ tdPc = "aborted" => tabResult[tdI].how = "launch_raises"

C5_Witness ==
    \E i \in 1..MaxTabs :
        /\ TabFailedCalls(i) # {}
        /\ tabResult[i].ret = "true"
        /\ TabDir(i) \o <<"index.html">> \in disk

-----------------------------------------------------------------------------
(* Claims about the mirror that temp.py and streamlit_app.py write.        *)

S_about  == <<"a", "b", "o", "u", "t">>
S_tokens == <<"t", "o", "k", "e", "n", "s">>
S_price  == <<"p", "r", "i", "c", "e">>
S_supply == <<"s", "u", "p", "p", "l", "y">>

CrossOrigin(url) == LET a == Absolutize(url) IN a.form = "abs" /\ a.host # BaseHost

\* C3: no GET is issued for a URL whose resolved host is not the
\* dashboard's, neither by TabDownloader.download_resource nor by the
\* stylesheet download of save_page_with_assets, and the saved HTML holds
\* such a URL as the page had it.  (Stated as the claim; the code violates
\* it.)
C3_CrossOriginNeverFetched ==
    /\ \A c \in Calls : CrossOrigin(CallUrl(c)) => Gets(c) = 0
    /\ \A u \in gets : ~CrossOrigin(u)
    /\ \A i \in 1..MaxTabs : \A t \in tabResult[i].html : CrossOrigin(t.url) => t.pre = 0
    /\ \A q \in DOMAIN files : \A n \in DOMAIN files[q].links :
          CrossOrigin(files[q].links[n].url) => ~files[q].links[n].local

\* The dashboard of the end-to-end scenario.
AboutTokens == <<Tab(L_About, 1, <<>>), Tab(L_Tokens, 2, <<L_Price, L_Supply>>)>>

FailureFreeRun(d) == prog = "temp" /\ dash = d /\ mPc = "done" /\ raises = 0

\* C6: for the dashboard About, Tokens (Price, Supply) a run of temp.py
\* without failures ends with exactly the pages about/index.html,
\* tokens/price.html and tokens/supply.html, the Site Map sends "tokens" to
\* tokens/price.html, and in about/index.html every navigation element with
\* the text Tokens is an <a> whose href is ../tokens/price.html.
C6_EndToEnd ==
    FailureFreeRun(AboutTokens) =>
        /\ DOMAIN files = {PagePath(S_about, Str_index), PagePath(S_tokens, S_price),
                           PagePath(S_tokens, S_supply)}
        /\ S_tokens \in DOMAIN site_map
        /\ site_map[S_tokens] = PagePath(S_tokens, S_price)
        /\ LET soup == files[PagePath(S_about, Str_index)].soup
           IN /\ \A n \in DOMAIN soup :
                    (IsNavElement(soup[n]) /\ soup[n].text = L_Tokens)
                    => /\ soup[n].tag = "a"
                       /\ soup[n].href = [ups |-> 1, dir |-> S_tokens, stem |-> S_price]
              /\ \E n \in DOMAIN soup : soup[n].tag = "a" /\ soup[n].text = L_Tokens

C6_Witness ==
    /\ FailureFreeRun(AboutTokens)
    /\ PagePath(S_about, Str_index) \in DOMAIN files
    /\ PagePath(S_tokens, S_supply) \in DOMAIN files

\* discover_site_structure has returned its Site Map.
Discovered == IsMirror /\ N > 0 /\ mPc \in {"cap", "sub", "done"}

DistinctTopSlugs ==
    \A a \in 1..N, b \in 1..N : a # b => slug_of(dash[a].label) # slug_of(dash[b].label)

NoSecondTabList == \A i \in 1..N : dash[i].lists <= 1

\* C7: for a dashboard of N top-level tabs with pairwise distinct slugs, none
\* of which shows a second tab list, the Site Map that
\* discover_site_structure returns has exactly N entries, each sending a
\* tab's slug s to s/index.html.
C7_SiteMapComplete ==
    (Discovered /\ NoSecondTabList /\ DistinctTopSlugs) =>
        /\ DOMAIN site_map = {slug_of(dash[i].label) : i \in 1..N}
        /\ Cardinality(DOMAIN site_map) = N
        /\ \A s \in DOMAIN site_map : site_map[s] = PagePath(s, Str_index)

C7_Witness ==
    /\ Discovered /\ NoSecondTabList /\ DistinctTopSlugs
    /\ N = 2
    /\ DOMAIN site_map = {S_about, S_tokens}

\* Tab t shows a second tab list of k >= 2 sub-tabs with pairwise distinct
\* slugs.
HasSubTabs(t) ==
    /\ dash[t].lists > 1
    /\ Len(dash[t].subs) >= 2
    /\ \A j \in DOMAIN dash[t].subs, l \in DOMAIN dash[t].subs :
          j # l => slug_of(dash[t].subs[j]) # slug_of(dash[t].subs[l])

SubSlugs(t) == {slug_of(dash[t].subs[j]) : j \in DOMAIN dash[t].subs}

\* The Site Map sends slug(T) to slug(T)/slug(S1).html and the slugs of the
\* sub-tabs to pairwise distinct files in the directory slug(T).
SubTabMapping(t) ==
    LET T == slug_of(dash[t].label)
    IN /\ T \in DOMAIN site_map
       /\ site_map[T] = PagePath(T, slug_of(dash[t].subs[1]))
       /\ \A s \in SubSlugs(t) : s \in DOMAIN site_map /\ site_map[s].dir = T
       /\ \A s \in SubSlugs(t), r \in SubSlugs(t) : s # r => site_map[s] # site_map[r]

\* C8 as stated: after discover_site_structure every tab with sub-tabs
\* S1..Sk (k >= 2, slugs pairwise distinct) is sent to the file of its first
\* sub-tab, and its sub-tab slugs to k distinct files in its directory.
C8_SubTabMapping ==
    Discovered => \A t \in 1..N : HasSubTabs(t) => SubTabMapping(t)

\* The keys discover_site_structure assigns while it visits tab u.
KeysOf(u) ==
    {slug_of(dash[u].label)} \cup (IF dash[u].lists > 1 THEN SubSlugs(u) ELSE {})

\* No sub-tab of t after the first has the slug of t, and no tab or sub-tab
\* visited after t has the slug of t or of one of its sub-tabs.
NoLaterCollision(t) ==
    /\ \A j \in 2..Len(dash[t].subs) : slug_of(dash[t].subs[j]) # slug_of(dash[t].label)
    /\ \A u \in (t + 1)..N :
          KeysOf(u) \cap ({slug_of(dash[t].label)} \cup SubSlugs(t)) = {}

\* C8, amended: the mapping of C8 holds for every tab with sub-tabs none of
\* whose slugs is assigned again later in the discovery.
C8_SubTabMappingUnlessOverwritten ==
    Discovered => \A t \in 1..N : (HasSubTabs(t) /\ NoLaterCollision(t)) => SubTabMapping(t)

C8_Witness ==
    /\ Discovered
    /\ dash = AboutTokens
    /\ HasSubTabs(2) /\ NoLaterCollision(2)
    /\ site_map[S_tokens] = PagePath(S_tokens, S_price)
    /\ site_map[S_supply] = PagePath(S_tokens, S_supply)

\* The pages the capture loop writes for tab i.
ExpectedPages(i) ==
    IF dash[i].lists <= 1
    THEN {PagePath(slug_of(dash[i].label), Str_index)}
    ELSE {PagePath(slug_of(dash[i].label),
                   FileSlug(slug_of(dash[i].label), slug_of(dash[i].subs[j]))) :
             j \in DOMAIN dash[i].subs}

\* C9: a click or a capture (save_page_with_assets; in TabDownloader any
\* call inside download_tab's try) that raises for one top-level tab does
\* not end the run: the run ends only after the last tab, and every tab
\* during whose capture nothing raised has its page or pages on disk.
C9_TabFailureDoesNotAbort ==
    /\ IsMirror =>
          /\ mPc = "aborted" => lastRaise \notin {"cap_click", "cap_save", "sub_click", "sub_save"}
          /\ mPc = "done" => \A i \in 1..N : i \notin tabRaised => ExpectedPages(i) \subseteq DOMAIN files
    /\ prog = "td" =>
          /\ tdPc = "aborted" => tabResult[tdI].how = "launch_raises"
          /\ tdPc = "done" =>
                \A i \in 1..MaxTabs :
                    /\ tabResult[i].how # ""
                    /\ tabResult[i].how \in {"ok", "process_html_raises"}
                          => TabDir(i) \o <<"index.html">> \in disk

C9_Witness ==
    /\ prog = "temp"
    /\ mPc = "done"
    /\ N = 2
    /\ tabRaised = {1}
    /\ lastRaise = "cap_click"
    /\ ExpectedPages(2) # {}
    /\ ExpectedPages(2) \subseteq DOMAIN files

\* C10: a second pass of the rewriter over its own output changes nothing:
\* process_html over the index.html it produced, rewrite_links over a page
\* it rewrote, update_file over a file it updated.  (Stated as the claim;
\* process_html violates it.)
C10_RewriterIdempotent ==
    /\ \A i \in 1..MaxTabs :
          tabResult[i].index = "processed"
          => process_html(tabResult[i].html, base_url, TabName(i)) = tabResult[i].html
    /\ \A q \in DOMAIN files : rewrite_links(files[q].soup, q, site_map) = files[q].soup
    /\ html_file.runs >= 1
          => [n \in DOMAIN html_file.hrefs |-> update_href(html_file.hrefs[n])] = html_file.hrefs

-----------------------------------------------------------------------------
(* Claims C11 - C20.                                                       *)

\* C11: a page's index.html is written only after every download_resource
\* call dispatched for that page has returned, and no fetch of tab N+1 is
\* dispatched, nor is one of another tab still running, before tab N's
\* capture has completed; in WebpageExplorer no index.html is written for
\* a tab whose fetches have not been joined.
C11_FetchBeforeRewrite ==
    /\ \A c \in Calls :
          /\ tabResult[CallTab(c)].index # "none" => task[c].pc = "ret"
          /\ CallTab(c) > 1 => tabResult[CallTab(c) - 1].how # ""
          /\ task[c].pc = "get" => (CallTab(c) = tdI /\ tdPc = "gather")
    /\ \A i \in 1..MaxTabs :
          tabResult[i].how # "" => \A k \in 1..(i - 1) : tabResult[k].how # ""
    /\ we.index \subseteq we.joined
    /\ we.joined \subseteq we.dispatched

C11_Witness ==
    /\ tabResult[1].index = "processed"
    /\ \E c \in Calls : CallTab(c) = 1 /\ Gets(c) > 1 /\ Wrote(c)
    /\ \E c \in Calls : CallTab(c) = 2 /\ task[c].pc = "get"

\* What process_html writes for the resource URL u of tab i's page.
RewrittenRef(i, u) == update_url(Attr(AttrOf(u), 0, u), base_url, TabName(i))

\* C12: for every same-origin resource that download_resource stored while
\* capturing a tab, the reference that process_html writes into the tab's
\* index.html, resolved against the directory of that index.html, is the
\* path where the resource was stored.  (Stated as the claim; the code
\* violates it.)
C12_ReferenceResolvesToStoredFile ==
    \A c \in Calls :
        (Wrote(c) /\ tabResult[CallTab(c)].index = "processed")
        => LET t == RewrittenRef(CallTab(c), CallUrl(c))
           IN /\ t \in tabResult[CallTab(c)].html
              /\ DropLast(TabDir(CallTab(c)), t.url.ups) \o t.url.path = LocalPathOf(c)

\* C13: slugify applied to its own result returns that result.
C13_SlugifyIdempotent ==
    \A k \in 2..Len(slug_run.outs) : slug_run.outs[k] = slug_run.outs[k - 1]

C13_Witness ==
    /\ Len(slug_run.outs) = 2
    /\ slug_run.text = <<"!", " ">>
    /\ slug_run.outs = <<Str_untitled, Str_untitled>>

WellFormedSlug(s) ==
    /\ s # <<>>
    /\ \A i \in DOMAIN s : s[i] \in SlugChars \cup {"-"}
    /\ s[1] # "-" /\ s[Len(s)] # "-"
    /\ \A i \in 1..(Len(s) - 1) : ~(s[i] = "-" /\ s[i + 1] = "-")

\* C14: every result of slugify is non-empty, made of a-z, 0-9 and "-"
\* only, neither starts nor ends with "-" and has no two adjacent "-"; for
\* a text without a letter or digit the result is "untitled".
C14_SlugShape ==
    /\ \A k \in DOMAIN slug_run.outs : WellFormedSlug(slug_run.outs[k])
    /\ (slug_run.outs # <<>> /\ \A i \in DOMAIN slug_run.text : slug_run.text[i] \notin (SlugChars \cup DOMAIN UpperToLower \cup {"é"}))
          => slug_run.outs[1] = Str_untitled

C14_Witness ==
    /\ slug_run.text = <<"-", "A", "!", "1">>
    /\ slug_run.outs = << <<"a", "-", "1">> >>

\* C15: once the root URL has loaded, no failing tab click, label read,
\* sub-tab click, page save or fetch ends the run of main or main_scraper
\* with an exception.  (Stated as the claim; the code violates it.)
C15_NoFailureEndsRun ==
    (IsMirror /\ mPc = "aborted") => lastRaise \notin {"disc_label", "disc_click", "cap_label", "cap_click", "cap_save", "sub_label", "sub_click", "sub_save"}

\* rewrite_links may change this element of a page.
MayRewrite(el) ==
    /\ IsNavElement(el)
    /\ slug_of(Strip(el.text, Whitespace)) \in DOMAIN site_map

\* C16: in every page written, an element that is not an a, button or
\* [role=button] whose slugified text is a key of the Site Map is as
\* page.content() returned it; with an empty Site Map the whole page is.
C16_RewriteLinksFrame ==
    \A q \in DOMAIN files :
        /\ Len(files[q].soup) = Len(files[q].html)
        /\ \A n \in DOMAIN files[q].html :
              ~MayRewrite(files[q].html[n]) => files[q].soup[n] = files[q].html[n]
        /\ site_map = <<>> => files[q].soup = files[q].html

C16_Witness ==
    \E q \in DOMAIN files : \E n \in DOMAIN files[q].html, k \in DOMAIN files[q].html :
        /\ files[q].soup[n] # files[q].html[n]
        /\ files[q].html[k].tag = "button"
        /\ files[q].soup[k] = files[q].html[k]

C18_DiscoveryReturnsToRoot ==
    [][(IsMirror /\ mPc = "disc" /\ mPc' \in {"cap", "done"}) => page_url' = RootUrl]_vars

\* C19: in the discovery and capture loops every handle of a tab or sub-tab
\* that is read or clicked comes from a list queried in the same iteration
\* and after the last click or wait; of the lists queried before a loop no
\* handle is read or clicked.
C19_HandlesAreFresh ==
    /\ handles.misused = {}
    /\ handles.used \cap {"main_tabs_handles", "disc_main_tabs_handles", "sub_tab_buttons"} = {}

\* A run that has read and clicked tabs and sub-tabs in both phases.
C19_Witness ==
    /\ IsMirror
    /\ mPc = "done"
    /\ lastRaise = ""
    /\ {"main_tabs", "sub_tabs_handles", "sub_tabs"} \subseteq handles.used

\* The sleeps of navigate_with_retry double, it makes at most max_retries
\* attempts and raises only after the last attempt has failed.
NavigationRetried ==
    /\ \A k \in 2..Len(nav.sleeps) : nav.sleeps[k] = 2 * nav.sleeps[k - 1]
    /\ nav.attempts <= nav_max_retries
    /\ nav.raised <=> nav.attempts = nav_max_retries
    /\ nav.raised <=> (mPc = "aborted" /\ lastRaise = "goto")
    /\ Len(nav.sleeps) = (IF nav.raised THEN nav.attempts - 1 ELSE nav.attempts)

\* C20: a failed navigation or tab click is retried with a delay that
\* doubles after each failed attempt, up to max_retries (3) attempts in
\* total; only after the last attempt has failed is the failure raised and
\* the tab marked failed and skipped.  (Stated as the claim; the code
\* retries the first navigation only, a tab is skipped after one click().)
C20_FailuresAreRetried ==
    /\ prog = "streamlit" => NavigationRetried
    /\ (prog = "streamlit" /\ lastRaise \in {"cap_click", "sub_click"}) => nav.clicks = nav_max_retries

-----------------------------------------------------------------------------
(* Claims C21 - C30.                                                       *)

\* Tab t shows a second tab list that holds at least one sub-tab.
ShowsSubTabs(t) == dash[t].lists > 1 /\ dash[t].subs # <<>>

\* The Site Map sends the slug of sub-tab j of tab t to the file
\* slug(T)/slug(S).html.
SubEntryUnderOwnDir(t, j) ==
    LET S == slug_of(dash[t].subs[j])
    IN S \in DOMAIN site_map /\ site_map[S] = PagePath(slug_of(dash[t].label), S)

\* C21 as stated: after discover_site_structure, for every top-level tab T
\* that shows sub-tabs and every sub-tab S of T, the Site Map entry for
\* slug(S) is slug(T)/slug(S).html, on dashboards with any number of
\* top-level tabs that have sub-tabs.
C21_SubTabsUnderOwnDirectory ==
    Discovered => \A t \in 1..N : ShowsSubTabs(t) =>
                      \A j \in DOMAIN dash[t].subs : SubEntryUnderOwnDir(t, j)

\* No top-level tab visited after t assigns the slug of sub-tab j of t.
NotAssignedLater(t, j) ==
    \A u \in (t + 1)..N : slug_of(dash[t].subs[j]) \notin KeysOf(u)

\* C21, amended: the entry for slug(S) is slug(T)/slug(S).html for every
\* sub-tab S of T whose slug no top-level tab visited after T assigns, as
\* its own slug or as the slug of one of its sub-tabs.
C21_SubTabsUnderOwnDirectoryUnlessReassigned ==
    Discovered => \A t \in 1..N : ShowsSubTabs(t) =>
                      \A j \in DOMAIN dash[t].subs :
                          NotAssignedLater(t, j) => SubEntryUnderOwnDir(t, j)

\* Two top-level tabs with sub-tabs have been discovered, the first with a
\* sub-tab whose slug the second does not assign.
C21_Witness ==
    /\ Discovered
    /\ N = 2
    /\ ShowsSubTabs(1) /\ ShowsSubTabs(2)
    /\ slug_of(dash[1].label) # slug_of(dash[2].label)
    /\ \E j \in DOMAIN dash[1].subs : NotAssignedLater(1, j) /\ SubEntryUnderOwnDir(1, j)

\* Top-level tabs a and b, a before b, slugify to the same slug.
SameSlug(a, b) == a < b /\ slug_of(dash[a].label) = slug_of(dash[b].label)

\* What the iteration of discover_site_structure for tab b assigns.
WrittenFor(b) == discover_entries(<<>>, dash[b])

C23_RewriteFailureRecovered ==
    /\ \A i \in 1..MaxTabs : tabResult[i].how = "process_html_raises" =>
           /\ tabResult[i].ret = "true"
           /\ tabResult[i].index = "raw"
           /\ tabResult[i].html = TabHtml(TabResources(i))
           /\ {TabDir(i) \o <<"raw.html">>, TabDir(i) \o <<"index.html">>} \subseteq disk
    /\ \A i \in we.raw : i \in we.index /\ we.ret[i]

\* The position of the first element of doc whose tab entry has the id.
FirstAt(doc, id) == CHOOSE k \in DOMAIN doc : doc[k].id = id /\ \A m \in 1..(k - 1) : doc[m].id # id

\* C24: extract_nav_tabs returns the buttons whose id contains
\* 'trigger-tab-layout' whenever there is at least one, and the role='tab'
\* buttons that have an id only when there is none; the list holds no two
\* entries with the same id and keeps first-occurrence document order.
C24_FirstStrategyWins ==
    tabs_run.returned =>
        LET doc == tabs_run.doc
            out == tabs_run.out
            Won(e) == IF \E k \in DOMAIN doc : IsTriggerButton(doc[k])
                      THEN IsTriggerButton(e) ELSE IsRoleTabButtonWithId(e)
            matched == SelectSeq(doc, Won)
        IN /\ {out[k].id : k \in DOMAIN out} = {matched[k].id : k \in DOMAIN matched}
           /\ \A i \in DOMAIN out : out[i] = TabEntry(matched[FirstAt(matched, out[i].id)])
           /\ \A i \in DOMAIN out, j \in DOMAIN out : i # j => out[i].id # out[j].id
           /\ \A i \in DOMAIN out, j \in DOMAIN out :
                  i < j => FirstAt(matched, out[i].id) < FirstAt(matched, out[j].id)

\* A file with a trigger button twice, a role='tab' button with an id and
\* one without has been read.
C24_Witness ==
    /\ tabs_run.returned
    /\ Len(tabs_run.out) = 1
    /\ \E i \in DOMAIN tabs_run.doc, j \in DOMAIN tabs_run.doc :
           i # j /\ tabs_run.doc[i].id = tabs_run.doc[j].id /\ tabs_run.doc[i] # tabs_run.doc[j]
                 /\ IsTriggerButton(tabs_run.doc[i]) /\ IsTriggerButton(tabs_run.doc[j])
    /\ \E k \in DOMAIN tabs_run.doc : IsRoleTabButtonWithId(tabs_run.doc[k]) /\ ~HasTriggerId(tabs_run.doc[k])

\* C25: when the loaded dashboard exposes no top-level tab controls,
\* main_scraper saves the page exactly once as index.html directly under
\* the output root, with an empty Site Map and without running discovery,
\* and terminates normally.  (Stated as the claim; on a page without any
\* tab list wait_for_selector raises and nothing is saved.)
C25_NoTabsSinglePage ==
    (prog = "streamlit" /\ N = 0 /\ mPc \notin {"start", "loaded"} /\ ~(lastRaise \in {"goto", "save"} \/ (lastRaise = "selector" /\ tablist))) =>
        /\ mPc = "done"
        /\ DOMAIN files = {PagePath(RootDir, Str_index)}
        /\ site_map = <<>>
        /\ "disc_main_tabs_handles" \notin handles.here

\* The page an href written by rewrite_links into the file at fpath leads to.
LinkTarget(fpath, href) ==
    IF href.ups = 0 /\ href.dir = <<>> THEN PagePath(fpath.dir, href.stem)
    ELSE PagePath(href.dir, href.stem)

\* The elements of a written file that rewrite_links gave an href.
RewrittenLinks(fpath) ==
    {n \in DOMAIN files[fpath].soup :
        /\ files[fpath].soup[n].tag = "a"
        /\ files[fpath].soup[n].href \notin {NoHref, OrigHref}}

\* C26: in a run in which no click, save or fetch fails, every value of the
\* Site Map is the path of an HTML file the capture phase wrote, and every
\* navigation link written by rewrite_links leads to a file of the run.
\* (Stated as the claim; main of temp.py saves the sub-tab whose slug is the
\* tab's under index.html, while the Site Map names <slug>/<slug>.html.)
C26_SiteMapValuesWritten ==
    (IsMirror /\ mPc = "done" /\ raises = 0) =>
        /\ \A s \in DOMAIN site_map : site_map[s] \in DOMAIN files
        /\ \A fpath \in DOMAIN files : \A n \in RewrittenLinks(fpath) :
               LinkTarget(fpath, files[fpath].soup[n].href) \in DOMAIN files

\* C27: after TabDownloader.run, each tab's directory holds, under its own
\* assets/ tree, a file for every same-origin resource the tab's page
\* references and whose fetch did not fail, also for a resource that was
\* downloaded while an earlier tab was processed.  (Stated as the claim; a
\* URL in visited_urls is skipped, so the later tab gets no file.)
C27_EveryTabHasItsAssets ==
    tdPc = "done" =>
        \A c \in Calls :
            (StartsWithBaseDomain(Absolutize(CallUrl(c))) /\ (\A d \in Calls : CallUrl(d) = CallUrl(c) => task[d].out # "failed"))
                => LocalPathOf(c) \in disk

\* C28: a resource whose every fetch attempt failed while one page was
\* captured is not recorded as downloaded: the download_resource call a
\* later page makes for the same URL attempts the download again.  (Stated
\* as the claim; TabDownloader keeps the URL in visited_urls.)
C28_FailedResourceFetchedAgain ==
    \A c \in Calls, d \in Calls :
        ( /\ CallTab(d) < CallTab(c)
          /\ CallUrl(d) = CallUrl(c)
          /\ task[d].out = "failed" )
        => (task[c].out # "visited" /\ (task[c].pc = "ret" => Gets(c) >= 1))

\* C29: a run that fails to load the initial root URL leaves an existing
\* output directory as it was; the previous output is deleted only after
\* the root page has loaded, at most once per run, and before any page of
\* the run is written.
C29_OutputDeletedOnceAfterLoad ==
    IsMirror =>
        /\ (mPc = "aborted" /\ lastRaise = "goto") =>
               out_dir = [exists |-> TRUE, old |-> TRUE, rmtrees |-> 0]
        /\ out_dir.rmtrees <= 1
        /\ out_dir.old <=> out_dir.rmtrees = 0
        /\ out_dir.rmtrees = 1 => page_url # BlankUrl
        /\ DOMAIN files # {} => out_dir.rmtrees = 1

\* main_scraper has given up on the root URL after its last attempt.
C29_Witness ==
    /\ prog = "streamlit"
    /\ mPc = "aborted"
    /\ lastRaise = "goto"
    /\ nav.attempts = nav_max_retries
    /\ out_dir.old

\* C30: when discover_site_structure has returned, the slug of every
\* top-level tab it clicked is a key of the Site Map, whether or not the
\* click showed a second tab list and whatever that list holds.
C30_EveryClickedTabHasAKey ==
    Discovered => \A i \in 1..N : slug_of(dash[i].label) \in DOMAIN site_map

====
